---- MODULE Spec2Model ----
(***************************************************************************)
(* ReviewSift server (Express): the /api/search, /api/reviews and /api/art  *)
(* request handlers, the Steam review pagination loop, the heuristic       *)
(* summarizer and the two-stage Gemini synthesis with its fallback; and    *)
(* the page (public/app.js): its globals, its event handlers and           *)
(* fetchReviews.                                                           *)
(*                                                                         *)
(* Strings that the code converts (trim, toLowerCase, parseInt) are        *)
(* sequences of one-character strings.  A review list is kept run-length   *)
(* encoded: a sequence of runs [r, n], n > 0, standing for n consecutive    *)
(* copies of the review r.                                                 *)
(***************************************************************************)
EXTENDS Integers, Sequences, FiniteSets, TLC

(* ------------------------------ strings ------------------------------ *)

UPPER == <<"A","B","C","D","E","F","G","H","I","J","K","L","M",
           "N","O","P","Q","R","S","T","U","V","W","X","Y","Z">>
LOWER == <<"a","b","c","d","e","f","g","h","i","j","k","l","m",
           "n","o","p","q","r","s","t","u","v","w","x","y","z">>
DIGITS == <<"0","1","2","3","4","5","6","7","8","9">>

IsSpace(c) == c \in {" ", "\n", "\t"}

\* String.prototype.toLowerCase, one character
toLowerChar(c) ==
  IF \E i \in 1..Len(UPPER) : UPPER[i] = c
    THEN LOWER[CHOOSE i \in 1..Len(UPPER) : UPPER[i] = c]
    ELSE c

toLowerCase(s) == [i \in 1..Len(s) |-> toLowerChar(s[i])]

\* String.prototype.trim
RECURSIVE trimStart(_)
trimStart(s) ==
  IF s # <<>> /\ IsSpace(Head(s)) THEN trimStart(Tail(s)) ELSE s

RECURSIVE trimEnd(_)
trimEnd(s) ==
  IF s # <<>> /\ IsSpace(s[Len(s)]) THEN trimEnd(SubSeq(s, 1, Len(s) - 1)) ELSE s

trim(s) == trimEnd(trimStart(s))

\* An optional string: a query parameter, a body field or an environment
\* variable that may be undefined.
Undefined == [def |-> FALSE, s |-> <<>>]
Str(s) == [def |-> TRUE, s |-> s]

\* JavaScript `x || dflt` on an optional string ("" and undefined are falsy)
OrElse(x, dflt) == IF x.def /\ x.s # <<>> THEN x.s ELSE dflt

\* a presence test that takes the empty string for a value
FalsyOnlyUndefined(x) == ~x.def

\* JavaScript `!x` on an optional string
Falsy(x) == ~x.def \/ x.s = <<>>

(* ------------------------------ numbers ------------------------------ *)

\* A JavaScript number that may be NaN
NaN == [nan |-> TRUE, v |-> 0]
Num(v) == [nan |-> FALSE, v |-> v]

DigitVal(c) == (CHOOSE i \in 1..Len(DIGITS) : DIGITS[i] = c) - 1
IsDigit(c) == \E i \in 1..Len(DIGITS) : DIGITS[i] = c

\* value of the longest prefix of digits of s, continuing from acc
RECURSIVE digitsPrefix(_, _)
digitsPrefix(s, acc) ==
  IF s # <<>> /\ IsDigit(Head(s))
    THEN digitsPrefix(Tail(s), acc * 10 + DigitVal(Head(s)))
    ELSE acc

\* parseInt(s, 10): leading white space, an optional sign, then the longest
\* run of digits; NaN when there is no digit.
parseInt(s) ==
  LET t == trimStart(s)
      neg == t # <<>> /\ Head(t) = "-"
      u == IF t # <<>> /\ Head(t) \in {"-", "+"} THEN Tail(t) ELSE t
  IN IF u = <<>> \/ ~IsDigit(Head(u)) THEN NaN
     ELSE Num(IF neg THEN 0 - digitsPrefix(u, 0) ELSE digitsPrefix(u, 0))

\* Math.min(a, b) with b a plain integer
mathMin(a, b) == IF a.nan THEN NaN ELSE Num(IF a.v < b THEN a.v ELSE b)

\* JavaScript `len < m` (false when m is NaN)
lessThan(len, m) == ~m.nan /\ len < m.v

(* --------------------------- review lists ---------------------------- *)

\* One upstream review: the fields of reviews[] that the server reads.
\* playtime is author.playtime_forever in minutes (0 when the author is absent).
Review(language, up, playtime, text) ==
  [language |-> language, voted_up |-> up, playtime |-> playtime, review |-> text]

Run(r, n) == [r |-> r, n |-> n]

\* Array.prototype.length
RECURSIVE length(_)
length(l) == IF l = <<>> THEN 0 ELSE Head(l).n + length(Tail(l))

\* Array.prototype.concat (adjacent runs of one review are merged)
concat(a, b) ==
  IF a = <<>> THEN b
  ELSE IF b = <<>> THEN a
  ELSE IF a[Len(a)].r = Head(b).r
    THEN SubSeq(a, 1, Len(a) - 1)
         \o <<Run(Head(b).r, a[Len(a)].n + Head(b).n)>>
         \o Tail(b)
    ELSE a \o b

\* the first k reviews of l
RECURSIVE take(_, _)
take(l, k) ==
  IF l = <<>> \/ k <= 0 THEN <<>>
  ELSE IF Head(l).n <= k THEN <<Head(l)>> \o take(Tail(l), k - Head(l).n)
  ELSE <<Run(Head(l).r, k)>>

\* l without its first k reviews
RECURSIVE drop(_, _)
drop(l, k) ==
  IF l = <<>> \/ k <= 0 THEN l
  ELSE IF Head(l).n <= k THEN drop(Tail(l), k - Head(l).n)
  ELSE <<Run(Head(l).r, Head(l).n - k)>> \o Tail(l)

\* slice(0, end) that cuts nothing
sliceToNothingCut(l, end) == l

\* Array.prototype.slice(0, end): end NaN counts as 0, a negative end counts
\* from the end of the array.
sliceTo(l, end) ==
  IF end.nan THEN <<>>
  ELSE IF end.v < 0 THEN take(l, length(l) + end.v)
  ELSE take(l, end.v)

\* Array.prototype.slice(from, to) with 0 <= from <= to
slice(l, from, to) == take(drop(l, from), to - from)

\* rawChunk.filter((r) => (r.language || "").toLowerCase() === lang)
RECURSIVE filterLanguage(_, _)
filterLanguage(l, lang) ==
  IF l = <<>> THEN <<>>
  ELSE IF toLowerCase(Head(l).r.language) = lang
    THEN concat(<<Head(l)>>, filterLanguage(Tail(l), lang))
    ELSE filterLanguage(Tail(l), lang)

\* the vote filter with its predicate negated
RECURSIVE filterVoteNegated(_, _)
filterVoteNegated(l, up) ==
  IF l = <<>> THEN <<>>
  ELSE IF Head(l).r.voted_up # up
    THEN concat(<<Head(l)>>, filterVoteNegated(Tail(l), up))
    ELSE filterVoteNegated(Tail(l), up)

\* all.filter((r) => r.voted_up) when up, all.filter((r) => !r.voted_up) otherwise
RECURSIVE filterVote(_, _)
filterVote(l, up) ==
  IF l = <<>> THEN <<>>
  ELSE IF Head(l).r.voted_up = up
    THEN concat(<<Head(l)>>, filterVote(Tail(l), up))
    ELSE filterVote(Tail(l), up)

\* all.reduce((acc, r) => acc + (r.author?.playtime_forever || 0), 0)
RECURSIVE sumPlaytime(_)
sumPlaytime(l) ==
  IF l = <<>> THEN 0 ELSE Head(l).r.playtime * Head(l).n + sumPlaytime(Tail(l))

(* ------------------------------ values ------------------------------- *)

\* A JSON scalar as the summary fields hold it: a number n/d (d > 0), null,
\* a string, or a missing field.
PNum(n, d) == [kind |-> "number", n |-> n, d |-> d]
PNull == [kind |-> "null", n |-> 0, d |-> 1]
PString == [kind |-> "string", n |-> 0, d |-> 1]
PUndefined == [kind |-> "undefined", n |-> 0, d |-> 1]

\* p >= a/b for a number p
geq(p, a, b) == p.n * b >= a * p.d

\* Math.round(n / d) for n >= 0, d > 0
mathRound(n, d) == (2 * n + d) \div (2 * d)

(* ------------------------ heuristic summarizer ----------------------- *)

\* verdictFromPositivity with the first threshold exclusive
verdictFromPositivityExclusive(p) ==
  IF p.n * 100 > 85 * p.d THEN "Overwhelmingly Positive"
  ELSE IF geq(p, 75, 100) THEN "Very Positive"
  ELSE IF geq(p, 65, 100) THEN "Mostly Positive"
  ELSE IF geq(p, 55, 100) THEN "Somewhat Positive"
  ELSE IF geq(p, 45, 100) THEN "Mixed"
  ELSE IF geq(p, 35, 100) THEN "Somewhat Negative"
  ELSE IF geq(p, 25, 100) THEN "Mostly Negative"
  ELSE "Very Negative"

verdictFromPositivity(p) ==
  IF geq(p, 85, 100) THEN "Overwhelmingly Positive"
  ELSE IF geq(p, 75, 100) THEN "Very Positive"
  ELSE IF geq(p, 65, 100) THEN "Mostly Positive"
  ELSE IF geq(p, 55, 100) THEN "Somewhat Positive"
  ELSE IF geq(p, 45, 100) THEN "Mixed"
  ELSE IF geq(p, 35, 100) THEN "Somewhat Negative"
  ELSE IF geq(p, 25, 100) THEN "Mostly Negative"
  ELSE "Very Negative"

StartsWith(s, pre) == Len(s) >= Len(pre) /\ SubSeq(s, 1, Len(pre)) = pre

RECURSIVE skipNonSpace(_)
skipNonSpace(s) ==
  IF s # <<>> /\ ~IsSpace(Head(s)) THEN skipNonSpace(Tail(s)) ELSE s

\* the length of the match of /https?:\/\/\S+/ at the start of s, 0 if none
urlPrefix(s) ==
  LET h == <<"h","t","t","p",":","/","/">>
      hs == <<"h","t","t","p","s",":","/","/">>
      k == IF StartsWith(s, hs) THEN Len(hs) ELSE IF StartsWith(s, h) THEN Len(h) ELSE 0
  IN IF k > 0 /\ Len(s) > k /\ ~IsSpace(s[k + 1]) THEN k ELSE 0

\* .replace(/https?:\/\/\S+/g, " ")
RECURSIVE replaceUrls(_)
replaceUrls(s) ==
  IF s = <<>> THEN <<>>
  ELSE IF urlPrefix(s) > 0
    THEN <<" ">> \o replaceUrls(skipNonSpace(SubSeq(s, urlPrefix(s) + 1, Len(s))))
    ELSE <<Head(s)>> \o replaceUrls(Tail(s))

IsLowerAlnum(c) == IsDigit(c) \/ \E i \in 1..Len(LOWER) : LOWER[i] = c

\* .replace(/[^a-z0-9\s]/g, " ")
replaceNonAlnum(s) ==
  [i \in 1..Len(s) |-> IF IsLowerAlnum(s[i]) \/ IsSpace(s[i]) THEN s[i] ELSE " "]

\* .split(/\s+/), without the empty strings (the length filter drops them)
RECURSIVE split(_, _)
split(s, cur) ==
  IF s = <<>> THEN (IF cur = <<>> THEN <<>> ELSE <<cur>>)
  ELSE IF IsSpace(Head(s))
    THEN (IF cur = <<>> THEN <<>> ELSE <<cur>>) \o split(Tail(s), <<>>)
    ELSE split(Tail(s), Append(cur, Head(s)))

RECURSIVE keepLength(_)
keepLength(ws) ==
  IF ws = <<>> THEN <<>>
  ELSE IF Len(Head(ws)) >= 3 /\ Len(Head(ws)) <= 24
    THEN <<Head(ws)>> \o keepLength(Tail(ws))
    ELSE keepLength(Tail(ws))

tokenize(text) ==
  keepLength(split(replaceNonAlnum(replaceUrls(toLowerCase(text))), <<>>))

stop == {
  <<"t","h","i","s">>, <<"t","h","a","t">>, <<"w","i","t","h">>,
  <<"h","a","v","e">>, <<"g","a","m","e">>, <<"p","l","a","y">>,
  <<"j","u","s","t">>, <<"l","i","k","e">>, <<"y","o","u">>,
  <<"y","o","u","r">>, <<"f","o","r">>, <<"a","n","d">>,
  <<"t","h","e">>, <<"a","r","e">>, <<"b","u","t">>,
  <<"n","o","t">>, <<"w","a","s">>, <<"i","t","s">>,
  <<"t","h","e","y">>, <<"t","h","e","m">>, <<"f","r","o","m">>,
  <<"o","u","t">>, <<"g","e","t">>, <<"t","o","o">>,
  <<"v","e","r","y">>, <<"a","l","l">>, <<"c","a","n">>,
  <<"c","a","n","t">>, <<"s","t","i","l","l">>, <<"r","e","a","l","l","y">>,
  <<"m","o","r","e">>, <<"w","h","e","n">>, <<"w","h","a","t">>,
  <<"b","e","e","n">>, <<"o","n","e">>, <<"t","i","m","e">>,
  <<"m","u","c","h">>, <<"a","f","t","e","r">>, <<"b","e","f","o","r","e">>,
  <<"i","n","t","o">> }

\* the words of ws that are no stop words
RECURSIVE dropStop(_)
dropStop(ws) ==
  IF ws = <<>> THEN <<>>
  ELSE IF Head(ws) \in stop THEN dropStop(Tail(ws))
  ELSE <<Head(ws)>> \o dropStop(Tail(ws))

Occurrences(ws, w) == Cardinality({i \in 1..Len(ws) : ws[i] = w})

\* the concatenation of the sequences of ss
RECURSIVE flatten(_)
flatten(ss) == IF ss = <<>> THEN <<>> ELSE Head(ss) \o flatten(Tail(ss))

\* the keys of the Map, in insertion order
RECURSIVE distinct(_, _)
distinct(ws, seen) ==
  IF ws = <<>> THEN <<>>
  ELSE IF Head(ws) \in seen THEN distinct(Tail(ws), seen)
  ELSE <<Head(ws)>> \o distinct(Tail(ws), seen \cup {Head(ws)})

RECURSIVE sumSeq(_)
sumSeq(ns) == IF ns = <<>> THEN 0 ELSE Head(ns) + sumSeq(Tail(ns))

Without(ws, i) == SubSeq(ws, 1, i - 1) \o SubSeq(ws, i + 1, Len(ws))

\* .sort((a, b) => b[1] - a[1]) on entries [w, count]: by count, descending,
\* stable
RECURSIVE sortByCount(_)
sortByCount(es) ==
  IF es = <<>> THEN <<>>
  ELSE LET i == CHOOSE i \in 1..Len(es) :
                  /\ \A j \in 1..Len(es) : es[j].count <= es[i].count
                  /\ \A j \in 1..(i - 1) : es[j].count < es[i].count
       IN <<es[i]>> \o sortByCount(Without(es, i))

\* Array.prototype.slice(0, k) on a plain sequence
firstN(ws, k) == SubSeq(ws, 1, IF Len(ws) < k THEN Len(ws) ELSE k)

topTermsFromReviews(reviews, limit) ==
  LET \* the counted words of each review of a run
      toks == [i \in 1..Len(reviews) |-> dropStop(tokenize(reviews[i].r.review))]
      \* the keys of freq, in insertion order
      words == distinct(flatten(toks), {})
      \* [...freq.entries()]
      entries == [k \in 1..Len(words) |->
                    [w |-> words[k],
                     count |-> sumSeq([i \in 1..Len(reviews) |->
                                 reviews[i].n * Occurrences(toks[i], words[k])])]]
      top == firstN(sortByCount(entries), limit)
  IN [k \in 1..Len(top) |-> top[k].w]

\* a summary object: the fields of the FinalSummary schema
Summary(overall, verdict, positivity, playtime, pros, cons, themes, topKeywords) ==
  [type |-> "object", overall |-> overall, verdict |-> verdict,
   positivity |-> positivity, playtimeAvgHrs |-> playtime, pros |-> pros,
   cons |-> cons, themes |-> themes, topKeywords |-> topKeywords]

\* the `overall` string: a fixed text, or `${pct}% positive (${pos}/${total})`
Overall(text, pct, pos, total) == [text |-> text, pct |-> pct, pos |-> pos, total |-> total]

Sentence(prefix, ks) == [i \in 1..Len(ks) |-> [prefix |-> prefix, k |-> ks[i]]]

heuristicSummary(l) ==
  LET total == length(l)
      posCount == length(filterVote(l, TRUE))
      positivity == IF total # 0 THEN PNum(posCount, total) ELSE PNum(0, 1)
      tenths == IF total # 0 THEN mathRound(sumPlaytime(l), 6 * total) ELSE 0
      posKeywords == topTermsFromReviews(filterVote(l, TRUE), 8)
      negKeywords == topTermsFromReviews(filterVote(l, FALSE), 8)
      topKeywords == topTermsFromReviews(l, 18)
  IN Summary(Overall("% positive", mathRound(positivity.n * 100, positivity.d),
                     posCount, total),
             verdictFromPositivity(positivity),
             positivity,
             PNum(tenths, 10),
             Sentence("Players frequently mention: ", firstN(posKeywords, 6)),
             Sentence("Common complaint around: ", firstN(negKeywords, 6)),
             distinct(firstN(topKeywords, 10), {}),
             topKeywords)

(* ----------------------------- safeJson ------------------------------ *)

\* The text of a model response is a sequence of tokens: a markdown code
\* fence (three backticks), "json", "{", "}", white space, a field of the
\* schema, or any other word.
FENCE == "fence"

\* the object a field token contributes to
fieldPositivity(tok) ==
  IF tok = "positivity:0.9" THEN PNum(9, 10)
  ELSE IF tok = "positivity:1.5" THEN PNum(15, 10)
  ELSE PUndefined

IsField(tok) == tok \in {"positivity:0.9", "positivity:1.5"}

NoOverall == Overall("", 0, 0, 0)

\* a parsed object that carries only the positivity field
JsonObject(positivity) ==
  Summary(NoOverall, "", positivity, PUndefined, <<>>, <<>>, <<>>, <<>>)

\* the JavaScript null
JsonNull == [JsonObject(PNull) EXCEPT !.type = "null"]

\* JavaScript truthiness of a parsed value
Truthy(v) == v.type = "object"

RECURSIVE dropSpaces(_)
dropSpaces(s) ==
  IF s = <<>> THEN <<>>
  ELSE IF IsSpace(Head(s)) THEN dropSpaces(Tail(s))
  ELSE <<Head(s)>> \o dropSpaces(Tail(s))

\* JSON.parse: [ok |-> FALSE] stands for the SyntaxError it throws
jsonParse(s) ==
  LET t == dropSpaces(s)
  IN IF s # <<>> /\ t = <<"{", "}">> THEN [ok |-> TRUE, value |-> JsonObject(PUndefined)]
     ELSE IF Len(t) = 3 /\ t[1] = "{" /\ IsField(t[2]) /\ t[3] = "}"
       THEN [ok |-> TRUE, value |-> JsonObject(fieldPositivity(t[2]))]
     ELSE IF t = <<"null">> THEN [ok |-> TRUE, value |-> JsonNull]
     ELSE [ok |-> FALSE, value |-> JsonNull]

\* .replace(/^```(?:json)?/i, "")
stripOpenFence(s) ==
  IF s # <<>> /\ Head(s) = FENCE
    THEN IF Len(s) >= 2 /\ s[2] \in {"json", "JSON", "Json"}
           THEN SubSeq(s, 3, Len(s)) ELSE Tail(s)
    ELSE s

\* .replace(/```$/i, "")
stripCloseFence(s) ==
  IF s # <<>> /\ s[Len(s)] = FENCE THEN SubSeq(s, 1, Len(s) - 1) ELSE s

\* String.prototype.indexOf / lastIndexOf, positions counted from 0, -1 if none
indexOf(s, tok) ==
  IF \E i \in 1..Len(s) : s[i] = tok
    THEN (CHOOSE i \in 1..Len(s) : s[i] = tok /\ \A j \in 1..(i - 1) : s[j] # tok) - 1
    ELSE -1

lastIndexOf(s, tok) ==
  IF \E i \in 1..Len(s) : s[i] = tok
    THEN (CHOOSE i \in 1..Len(s) : s[i] = tok /\ \A j \in (i + 1)..Len(s) : s[j] # tok) - 1
    ELSE -1

safeJson(txt) ==
  LET raw == trim(txt)
      noFences == trim(stripCloseFence(stripOpenFence(raw)))
      first == indexOf(noFences, "{")
      last == lastIndexOf(noFences, "}")
      sliced == IF first # -1 /\ last # -1 /\ last > first
                  THEN SubSeq(noFences, first + 1, last + 1)
                  ELSE noFences
      parsed == jsonParse(sliced)
  IN IF parsed.ok THEN parsed.value ELSE JsonNull

(* ------------------------- prompt construction ----------------------- *)

\* .replace(/\s+/g, " ")
RECURSIVE collapseSpaces(_)
collapseSpaces(s) ==
  IF s = <<>> THEN <<>>
  ELSE IF IsSpace(Head(s))
    THEN <<" ">> \o collapseSpaces(trimStart(s))
    ELSE <<Head(s)>> \o collapseSpaces(Tail(s))

MaxLineChars == 1400

\* toText: the rendered line of one review, without the Helpful count
toText(rv) ==
  [header |-> IF rv.voted_up THEN "Recommended" ELSE "Not Recommended",
   playtime |-> mathRound(rv.playtime, 60),
   body |-> firstN(collapseSpaces(rv.review), MaxLineChars)]

MaxReviewTexts == 80
batchSize == 50

\* all.map(toText).slice(0, 80)
reviewTexts(l) ==
  LET head == take(l, MaxReviewTexts)
  IN [i \in 1..Len(head) |-> Run(toText(head[i].r), head[i].n)]

\* the batches of the for loop: slices of batchSize lines
RECURSIVE batchesFrom(_, _)
batchesFrom(texts, i) ==
  IF i >= length(texts) THEN <<>>
  ELSE <<slice(texts, i, i + batchSize)>> \o batchesFrom(texts, i + batchSize)

\* all the lines in one batch
batchesWhole(l) == IF length(reviewTexts(l)) = 0 THEN <<>> ELSE <<reviewTexts(l)>>

batches(l) == batchesFrom(reviewTexts(l), 0)

\* What a prompt is built from; the fixed wording is left out.
Prompt(stage, batchIndex, totalBatches, reviews, parts, totalCount, appId) ==
  [stage |-> stage, batchIndex |-> batchIndex, totalBatches |-> totalBatches,
   reviews |-> reviews, partials |-> parts, totalCount |-> totalCount,
   appId |-> appId]

buildBatchPrompt(reviews, batchIndex, totalBatches) ==
  Prompt("batch", batchIndex, totalBatches, reviews, <<>>, 0, <<>>)

buildMergePrompt(parts, totalCount, appId) ==
  Prompt("merge", 0, 0, <<>>, parts, totalCount, appId)

\* the prompt of the image model call
artPrompt == Prompt("art", 0, 0, <<>>, <<>>, 0, <<>>)

(* ------------------------------ inputs ------------------------------- *)

english == <<"e","n","g","l","i","s","h">>
spanish == <<"s","p","a","n","i","s","h">>
schinese == <<"s","c","h","i","n","e","s","e">>
portuguese == <<"p","o","r","t","u","g","u","e","s","e">>
russian == <<"r","u","s","s","i","a","n">>
allLanguages == <<"a","l","l">>
french == <<"f","r","e","n","c","h">>
EnglishCapital == <<"E","n","g","l","i","s","h">>

allowedLangs == {english, spanish, schinese, portuguese, russian, allLanguages}

TextUp == <<"G","r","e","a","t"," ","f","u","n"," ","m","a","p","s",","," ","m","u","s","i","c"," ","s","t","o","r","y"," ","c","o","m","b","a","t"," ","a","r","t"," ","w","o","r","l","d">>
TextDown == <<"B","a","d"," ","n","e","t","c","o","d","e",","," ","s","e","e"," ","h","t","t","p","s",":","/","/","x",".","i","o","/","a"," ","c","r","a","s","h","e","s">>
TextCaps == <<"G","R","E","A","T"," ","f","u","n"," ","o","n"," ","m","y"," ","P","C">>
TextFr == <<"n","u","l">>

RevUp == Review(english, TRUE, 120, TextUp)
RevDown == Review(english, FALSE, 30, TextDown)
RevCaps == Review(EnglishCapital, TRUE, 600, TextCaps)
RevForeign == Review(french, FALSE, 0, TextFr)

\* num_per_page of the upstream request, and the short-page test of the loop
PageSize == 100

\* the pages the upstream may answer with
PageFull == <<Run(RevUp, PageSize)>>
PageMixed == <<Run(RevUp, 7), Run(RevDown, 3)>>
PageCaps == <<Run(RevCaps, 6), Run(RevForeign, 4)>>
PageForeign == <<Run(RevForeign, 40)>>
PageNearlyFull == <<Run(RevUp, PageSize - 1), Run(RevForeign, 1)>>
Pages == {PageFull, PageMixed, PageCaps, PageForeign, PageNearlyFull, <<>>}

\* the cursors the upstream may answer with ("" stands for a missing cursor)
Cursors == {"", "A", "B"}

\* the outcome of one fetchJson(url): it throws (a network error or a
\* response that is not ok), or resolves to null, or to a body with a
\* success flag, reviews and a cursor.
Upstream(outcome, success, reviews, next) ==
  [outcome |-> outcome, success |-> success, reviews |-> reviews, cursor |-> next]

\* no fetchJson has returned yet
NoData == Upstream("none", 0, <<>>, "")

UpstreamResponses ==
  {Upstream("throw", 0, <<>>, ""), Upstream("null", 0, <<>>, ""),
   Upstream("data", 0, <<>>, "")}
  \cup {Upstream("data", 1, pg, c) : pg \in Pages, c \in Cursors}

\* what the upstream may answer to the page request with cursor c: the
\* page with one stray foreign review is tried as a first page only
UpstreamAnswers(c) ==
  {d \in UpstreamResponses : d.reviews = PageNearlyFull => c = "*"}

\* the query strings of GET /api/reviews
AppIds == {Undefined, Str(<<>>), Str(<<"7","3","0">>)}
Nums == {Undefined, Str(<<"a","b","c">>), Str(<<"-","5">>), Str(<<"0">>),
         Str(<<"1","0">>), Str(<<"5","0","0","0">>)}
Langs == {Undefined, Str(<<" ","E","n","g","l","i","s","h">>),
          Str(<<"A","L","L">>), Str(french)}

Query(appId, num, language) ==
  [appId |-> appId, num |-> num, lang |-> language, name |-> Undefined, term |-> Undefined]
Body(name) ==
  [appId |-> Undefined, num |-> Undefined, lang |-> Undefined, name |-> name, term |-> Undefined]
SearchQuery(term) ==
  [appId |-> Undefined, num |-> Undefined, lang |-> Undefined, name |-> Undefined, term |-> term]

\* the term of GET /api/search
Terms == {Undefined, Str(<<" ">>), Str(<<"H","a","d","e","s">>)}

\* the outcome of the fetchJson of /api/search: it throws, or resolves to
\* null, or to a body without items, or to a body with this many items
SearchOutcomes == {"throw", "null", "noitems", "items"}
SearchItems == 3

\* the name field of the body of POST /api/art
Names == {Undefined, Str(<<>>), Str(<<"H","a","d","e","s">>)}

\* process.env.GOOGLE_API_KEY
EnvKeys == {Undefined, Str(<<" ">>), Str(<<"k","e","y">>)}

\* the outcome of one generateContent call followed by response.text()
Generated(threw, text) == [threw |-> threw, text |-> text]

TextPlain == <<"{", "positivity:0.9", "}">>
TextFenced == <<FENCE, "json", "\n", "{", "positivity:1.5", "}", "\n", FENCE>>
TextWrapped == <<"Here", " ", "{", " ", "positivity:0.9", "}", " ", "done">>
TextProse == <<"Sorry", " ", "no", " ", "JSON">>
TextNull == <<"null">>

AiTexts == {TextPlain, TextFenced, TextWrapped, TextProse, TextNull}

AiOutcomes == {Generated(TRUE, <<>>)} \cup {Generated(FALSE, t) : t \in AiTexts}

\* the outcome of the image model call: it throws, or answers without or
\* with an inline image part
ImageOutcomes == {"throw", "noimage", "image"}

(* ------------------------------- state ------------------------------- *)

VARIABLES
  key,          \* process.env.GOOGLE_API_KEY
  endpoint,     \* the route of the request being served
  req,          \* its query (GET /api/reviews) or body (POST /api/art)
  pc,           \* "idle" before the request arrives, the call its handler
                \* awaits ("fetch", "batch", "merge", "art"), "done" once
                \* the handler has returned
  lang, max, cursor, all,     \* the locals of the /api/reviews handler
  lastPage,     \* how the last fetchJson of this request ended ("none": none returned yet)
  url,          \* the cursor parameter of the url of the latest page request
  prevUrl,      \* the cursor parameter of the url that `data` answered
  data,         \* what the latest fetchJson(url) of this request gave
  prompts,      \* the prompts handed to generateContent for this request, in order
  batchIdx,     \* idx of the batch loop
  partials,     \* partials of the batch loop
  aiLog,        \* the model calls of this request that have returned, in order
  ranHeuristic, \* heuristicSummary was called for this request
  res,          \* the response sent for this request
  sent,         \* how many responses were sent for this request
  vp, vlabel,   \* an argument of verdictFromPositivity and its result
  \* the page of the browser (public/app.js)
  currentGame, currentSummary, lastGame,   \* its globals
  langSelect,   \* the value of the language select
  prosEl, consEl,  \* the entries shown in the pros and the cons list
  pending,      \* the fetches of /api/reviews awaited by fetchReviews calls
  summaryFor,   \* the game of the fetchReviews call that assigned currentSummary
  poster        \* the arguments of the latest generatePoster call

serverVars == <<key, endpoint, req, pc, lang, max, cursor, all, lastPage, url, prevUrl,
                data, prompts, batchIdx, partials, aiLog, ranHeuristic, res, sent,
                vp, vlabel>>

frontVars == <<currentGame, currentSummary, lastGame, langSelect, prosEl, consEl,
               pending, summaryFor, poster>>

vars == <<serverVars, frontVars>>

MaxNum == 1000
SampleSize == 12
NoUrl == "none"

\* the cursor kept whatever the response carries
nextCursorKept(d, c) == c

\* `data.cursor || cursor`
nextCursorOf(d, c) == IF d.cursor # "" THEN d.cursor ELSE c
DefaultNum == <<"2","0","0">>
StartCursor == "*"

\* the body of a response; status 0: nothing sent yet
Response(status, error, count, appId, language, summary, sample, image) ==
  [status |-> status, error |-> error, count |-> count, appId |-> appId,
   lang |-> language, summary |-> summary, sample |-> sample, image |-> image,
   results |-> 0]

NoResponse == Response(0, "", 0, Undefined, <<>>, JsonNull, <<>>, FALSE)

ErrorResponse(status, error) ==
  Response(status, error, 0, Undefined, <<>>, JsonNull, <<>>, FALSE)

SentinelSummary ==
  Summary(Overall("No reviews returned by Steam for this language.", 0, 0, 0),
          "Unknown", PNull, PNull, <<>>, <<>>, <<>>, <<>>)

\* all.slice(0, 12).map(...): the fields of the sample entries
sampleOf(l) ==
  LET head == take(l, SampleSize)
  IN [i \in 1..Len(head) |->
        Run([voted_up |-> head[i].r.voted_up, review |-> head[i].r.review,
             playtime_hours |-> mathRound(head[i].r.playtime, 60)], head[i].n)]

\* an empty-set test that never fires
IsEmptyListNever(l) == FALSE

\* `!all.length`
IsEmptyList(l) == length(l) = 0

\* the key test without the trim
NoKeyUntrimmed(env) == OrElse(env, <<>>) = <<>>

\* (process.env.GOOGLE_API_KEY || "").trim(), and `!key`
keyOf(env) == trim(OrElse(env, <<>>))
NoKey(env) == keyOf(env) = <<>>

\* the merge result taken without the test
mergedAlways(merged, fallback) == merged

\* `if (merged) summary = merged` over `let summary = fallback`
mergedOrFallback(merged, fallback) == IF Truthy(merged) THEN merged ELSE fallback

\* the model calls of this request: those that returned and the one awaited
AiCalls == Len(aiLog) + (IF pc \in {"batch", "merge", "art"} THEN 1 ELSE 0)

\* an upstream page request was issued for this request
UpstreamCalled == pc \in {"fetch", "search"} \/ lastPage # "none"

(* ------------------------ the page (public/app.js) -------------------- *)

\* a search result as the page keeps it; NoGame stands for null
Game(appid, name) == [appid |-> appid, name |-> name]
NoGame == Game("", "")
Games == {Game("730", "Hades"), Game("440", "Celeste")}

\* What s.pros or s.cons may hold: nothing, an array of strings, or a
\* string (items: its characters).
Entry(chars) == [prefix |-> "", k |-> chars]
Missing == [kind |-> "undefined", items |-> <<>>]
Arr(items) == [kind |-> "array", items |-> items]
Text(chars) == [kind |-> "string", items |-> [i \in 1..Len(chars) |-> Entry(<<chars[i]>>)]]

\* the summary of a response of /api/reviews as the page receives it
received(s) == [s EXCEPT !.pros = Arr(s.pros), !.cons = Arr(s.cons)]

\* null, and an answer without a summary
NoSummary == [JsonNull EXCEPT !.pros = Missing, !.cons = Missing]

\* a merged summary of the model with n pros and m cons
AiItems(n) == [i \in 1..n |-> Entry(<<"p", DIGITS[i + 1]>>)]
AiSummary(pros, cons) == [JsonObject(PNum(9, 10)) EXCEPT !.pros = pros, !.cons = cons]

LongPros == 8
LongCons == 7

FrontSummaries ==
  {received(heuristicSummary(PageMixed)), received(SentinelSummary),
   AiSummary(Arr(AiItems(LongPros)), Arr(AiItems(LongCons))),
   AiSummary(Text(<<"g","o","o","d"," ","m","a","p","s">>), Missing)}

\* how an awaited fetch of /api/reviews ends: fetch or res.json() rejects,
\* or data arrives, with or without a summary
FrontData(ok, summary) == [ok |-> ok, summary |-> summary]
FrontResponses ==
  {FrontData(FALSE, NoSummary), FrontData(TRUE, NoSummary)}
  \cup {FrontData(TRUE, fs) : fs \in FrontSummaries}

\* the options of the language select
SelectOptions == {english, spanish}

\* fetchReviews calls awaiting their response at one time
MaxPending == 2

NoPoster == [game |-> NoGame, summary |-> NoSummary, for |-> NoGame]

\* the page as loaded
PageLoaded ==
  /\ currentGame = NoGame
  /\ currentSummary = NoSummary
  /\ lastGame = NoGame
  /\ langSelect = english
  /\ prosEl = <<>>
  /\ consEl = <<>>
  /\ pending = <<>>
  /\ summaryFor = NoGame
  /\ poster = NoPoster

\* the highlights shown whole
sliceAll(v) == IF v.kind = "undefined" \/ v.items = <<>> THEN Arr(<<>>) ELSE v

\* `(s.pros || []).slice(0, 6)`
sliceSix(v) ==
  IF v.kind = "undefined" \/ (v.kind = "string" /\ v.items = <<>>) THEN Arr(<<>>)
  ELSE [v EXCEPT !.items = firstN(v.items, 6)]

\* listify throws on a string that is not empty (arr.map is not a function)
listifyThrows(v) == v.kind = "string" /\ v.items # <<>>

\* fetchReviews(game) up to its await, the language select holding value
fetchReviews(game, value) ==
  /\ Len(pending) < MaxPending
  /\ lastGame' = game
  /\ currentGame' = game
  /\ currentSummary' = NoSummary
  /\ summaryFor' = NoGame
  /\ prosEl' = <<>>
  /\ consEl' = <<>>
  /\ pending' = Append(pending, [game |-> game, lang |-> trim(OrElse(Str(value), english))])
  /\ UNCHANGED poster

\* a click on a search result
ClickGame(g) ==
  /\ fetchReviews(g, langSelect)
  /\ UNCHANGED langSelect
  /\ UNCHANGED serverVars

\* the change handler of the language select
ChangeLang(l) ==
  /\ l # langSelect
  /\ langSelect' = l
  /\ IF lastGame # NoGame
       THEN fetchReviews(lastGame, l)
       ELSE UNCHANGED <<currentGame, currentSummary, lastGame, prosEl, consEl, pending,
                        summaryFor, poster>>
  /\ UNCHANGED serverVars

\* the i-th awaited fetch ends with d: the rest of that fetchReviews call
ReviewsArrive(i, d) ==
  /\ i \in 1..Len(pending)
  /\ pending' = SubSeq(pending, 1, i - 1) \o SubSeq(pending, i + 1, Len(pending))
  /\ IF ~d.ok \/ ~Truthy(d.summary)
       THEN UNCHANGED <<currentSummary, summaryFor, prosEl, consEl>>
       ELSE LET pros == sliceSix(d.summary.pros)
                cons == sliceSix(d.summary.cons)
            IN /\ currentSummary' = d.summary
               /\ summaryFor' = pending[i].game
               /\ prosEl' = IF listifyThrows(pros) THEN prosEl ELSE pros.items
               /\ consEl' = IF listifyThrows(pros) \/ listifyThrows(cons)
                              THEN consEl ELSE cons.items
  /\ UNCHANGED <<currentGame, lastGame, langSelect, poster>>
  /\ UNCHANGED serverVars

\* the click handler of the poster button
ClickPoster ==
  /\ IF currentGame = NoGame \/ ~Truthy(currentSummary)
       THEN UNCHANGED poster
       ELSE poster' = [game |-> currentGame, summary |-> currentSummary, for |-> summaryFor]
  /\ UNCHANGED <<currentGame, currentSummary, lastGame, langSelect, prosEl, consEl,
                 pending, summaryFor>>
  /\ UNCHANGED serverVars

Init ==
  /\ PageLoaded
  /\ key \in EnvKeys
  /\ endpoint = "none"
  /\ req = Query(Undefined, Undefined, Undefined)
  /\ pc = "idle"
  /\ lang = english
  /\ max = Num(0)
  /\ cursor = StartCursor
  /\ all = <<>>
  /\ lastPage = "none"
  /\ url = NoUrl
  /\ prevUrl = NoUrl
  /\ data = NoData
  /\ prompts = <<>>
  /\ batchIdx = 0
  /\ partials = <<>>
  /\ aiLog = <<>>
  /\ ranHeuristic = FALSE
  /\ res = NoResponse
  /\ sent = 0
  /\ vp = PNum(0, 1)
  /\ vlabel = ""

\* a branch that answers and, lacking its return, answers again at the end
SendReviewsNoReturn(l, appId, language, s, sentBefore) ==
  /\ res' = Response(200, "", length(l), appId, language, s, sampleOf(l), FALSE)
  /\ sent' = sentBefore + 2
  /\ pc' = "done"

\* res.json(...) of the /api/reviews handler with the summary s over the list l
SendReviews(l, appId, language, s, sentBefore) ==
  /\ res' = Response(200, "", length(l), appId, language, s, sampleOf(l), FALSE)
  /\ sent' = sentBefore + 1
  /\ pc' = "done"

\* /api/reviews from the end of the while loop to the first model call
\* (sentBefore: the responses this request has sent so far):
\* the final slice, the sample, the empty-set answer, the fallback summary
\* and the key check (lines 266-302).
AfterLoop(acc, m, language, appId, sentBefore) ==
  LET l == sliceTo(acc, m)
  IN /\ all' = l
     /\ IF IsEmptyList(l)
          THEN /\ res' = Response(200, "", 0, appId, language, SentinelSummary, <<>>, FALSE)
               /\ sent' = sentBefore + 1
               /\ pc' = "done"
               /\ ranHeuristic' = FALSE
               /\ prompts' = <<>>
          ELSE /\ ranHeuristic' = TRUE
               /\ IF NoKey(key)
                    THEN /\ SendReviews(l, appId, language, heuristicSummary(l), sentBefore)
                         /\ prompts' = <<>>
                    ELSE /\ pc' = "batch"
                         /\ prompts' = <<buildBatchPrompt(batches(l)[1], 1, Len(batches(l)))>>
                         /\ res' = NoResponse
                         /\ sent' = sentBefore

\* GET /api/reviews arrives: the handler runs up to its first await
ReviewsRequest(q) ==
  /\ pc = "idle"
  /\ endpoint' = "reviews"
  /\ req' = q
  /\ lastPage' = "none"
  /\ prevUrl' = NoUrl
  /\ data' = NoData
  /\ batchIdx' = 0
  /\ partials' = <<>>
  /\ aiLog' = <<>>
  /\ LET m == mathMin(parseInt(OrElse(q.num, DefaultNum)), MaxNum)
         langRaw == toLowerCase(trim(OrElse(q.lang, english)))
         language == IF langRaw \in allowedLangs THEN langRaw ELSE english
     IN IF Falsy(q.appId)
          THEN /\ res' = ErrorResponse(400, "Missing appId.")
               /\ sent' = 1
               /\ pc' = "done"
               /\ ranHeuristic' = FALSE
               /\ lang' = english /\ max' = m /\ cursor' = StartCursor /\ all' = <<>>
               /\ url' = NoUrl
               /\ prompts' = <<>>
          ELSE /\ lang' = language
               /\ max' = m
               /\ cursor' = StartCursor
               /\ IF lessThan(0, m)
                    THEN /\ pc' = "fetch"
                         /\ url' = StartCursor
                         /\ prompts' = <<>>
                         /\ all' = <<>>
                         /\ res' = NoResponse
                         /\ sent' = 0
                         /\ ranHeuristic' = FALSE
                    ELSE /\ AfterLoop(<<>>, m, language, q.appId, 0)
                         /\ url' = NoUrl
  /\ UNCHANGED frontVars
  /\ UNCHANGED <<key, vp, vlabel>>

\* the awaited fetchJson of the while loop returns d: the rest of the loop
\* body, the loop test and, when the loop ends, the code after it
FetchReturn(d) ==
  /\ pc = "fetch"
  /\ endpoint = "reviews"
  /\ data' = d
  /\ prevUrl' = url
  /\ IF d.outcome = "throw"
       THEN \* the outer catch: res.status(500)
            /\ lastPage' = "threw"
            /\ res' = ErrorResponse(500, "Review fetch failed.")
            /\ sent' = sent + 1
            /\ pc' = "done"
            /\ UNCHANGED <<cursor, url, all, ranHeuristic, prompts>>
       ELSE IF d.outcome = "null" \/ d.success # 1
         THEN \* `if (!data || data.success !== 1) break`
              /\ lastPage' = "unsuccessful"
              /\ AfterLoop(all, max, lang, req.appId, sent)
              /\ UNCHANGED <<cursor, url>>
         ELSE LET chunk == IF lang = allLanguages THEN d.reviews
                           ELSE filterLanguage(d.reviews, lang)
                  acc == IF length(chunk) = 0 THEN all ELSE concat(all, chunk)
                  nextCursor == nextCursorOf(d, cursor)
                  again == /\ nextCursor # cursor
                           /\ (length(chunk) = 0 \/ ~(length(chunk) < PageSize))
                           /\ lessThan(length(acc), max)
              IN /\ lastPage' = "page"
                 /\ cursor' = nextCursor
                 /\ IF again
                      THEN \* the next url is built from the new cursor
                           /\ all' = acc
                           /\ url' = nextCursor
                           /\ UNCHANGED <<pc, res, sent, ranHeuristic, prompts>>
                      ELSE /\ AfterLoop(acc, max, lang, req.appId, sent)
                           /\ UNCHANGED url
  /\ UNCHANGED frontVars
  /\ UNCHANGED <<key, endpoint, req, lang, max, batchIdx, partials, aiLog, vp, vlabel>>

\* url and data are constants of the loop body: past the loop they are
\* out of scope, and they are kept only up to the next await of the handler
LoopLocalsGone ==
  /\ url' = NoUrl
  /\ prevUrl' = NoUrl
  /\ data' = NoData

AiCall(stage, g) == [stage |-> stage, threw |-> g.threw, text |-> g.text]

\* the awaited generateContent of the batch loop returns g: the rest of the
\* loop body, the next batch or, after the last one, the merge prompt
BatchReturn(g) ==
  /\ pc = "batch"
  /\ aiLog' = Append(aiLog, AiCall("batch", g))
  /\ IF g.threw
       THEN \* catch (aiErr): summary stays the fallback
            /\ SendReviews(all, req.appId, lang, heuristicSummary(all), sent)
            /\ UNCHANGED <<batchIdx, partials, prompts>>
       ELSE LET json == safeJson(g.text)
                ps == IF Truthy(json) THEN Append(partials, json) ELSE partials
                bs == batches(all)
            IN /\ partials' = ps
               /\ batchIdx' = batchIdx + 1
               /\ IF batchIdx + 1 < Len(bs)
                    THEN /\ prompts' = Append(prompts,
                              buildBatchPrompt(bs[batchIdx + 2], batchIdx + 2, Len(bs)))
                         /\ UNCHANGED <<pc, res, sent>>
                    ELSE IF Len(ps) # 0
                      THEN /\ pc' = "merge"
                           /\ prompts' = Append(prompts,
                                buildMergePrompt(ps, length(all), req.appId.s))
                           /\ UNCHANGED <<res, sent>>
                      ELSE /\ SendReviews(all, req.appId, lang, heuristicSummary(all), sent)
                           /\ UNCHANGED prompts
  /\ LoopLocalsGone
  /\ UNCHANGED frontVars
  /\ UNCHANGED <<key, endpoint, req, lang, max, cursor, all, lastPage, ranHeuristic,
                 vp, vlabel>>

\* the awaited generateContent of the merge prompt returns g
MergeReturn(g) ==
  /\ pc = "merge"
  /\ aiLog' = Append(aiLog, AiCall("merge", g))
  /\ LET fallback == heuristicSummary(all)
         summary == IF g.threw THEN fallback
                    ELSE mergedOrFallback(safeJson(g.text), fallback)
     IN SendReviews(all, req.appId, lang, summary, sent)
  /\ LoopLocalsGone
  /\ UNCHANGED frontVars
  /\ UNCHANGED <<key, endpoint, req, lang, max, cursor, all, lastPage, prompts,
                 batchIdx, partials, ranHeuristic, vp, vlabel>>

\* POST /api/art arrives: the handler runs up to the image model call
ArtRequest(b) ==
  /\ pc = "idle"
  /\ endpoint' = "art"
  /\ req' = b
  /\ lastPage' = "none"
  /\ url' = NoUrl
  /\ prevUrl' = NoUrl
  /\ data' = NoData
  /\ batchIdx' = 0
  /\ partials' = <<>>
  /\ aiLog' = <<>>
  /\ ranHeuristic' = FALSE
  /\ IF NoKey(key)
       THEN /\ res' = ErrorResponse(500, "Server missing AI key.")
            /\ sent' = 1
            /\ pc' = "done"
            /\ prompts' = <<>>
       ELSE IF Falsy(b.name)
         THEN /\ res' = ErrorResponse(400, "Missing game name.")
              /\ sent' = 1
              /\ pc' = "done"
              /\ prompts' = <<>>
         ELSE /\ res' = NoResponse
              /\ sent' = 0
              /\ pc' = "art"
              /\ prompts' = <<artPrompt>>
  /\ UNCHANGED frontVars
  /\ UNCHANGED <<key, lang, max, cursor, all, vp, vlabel>>

\* the awaited imageModel.generateContent returns
ArtReturn(o) ==
  /\ pc = "art"
  /\ aiLog' = Append(aiLog, [stage |-> "art", threw |-> o = "throw", text |-> <<>>])
  /\ res' = IF o = "throw" THEN ErrorResponse(500, "AI art generation failed.")
            ELSE IF o = "noimage" THEN ErrorResponse(500, "Image generation failed.")
            ELSE Response(200, "", 0, req.appId, <<>>, JsonNull, <<>>, TRUE)
  /\ sent' = sent + 1
  /\ pc' = "done"
  /\ UNCHANGED frontVars
  /\ UNCHANGED <<key, endpoint, req, lang, max, cursor, all, lastPage, url, prevUrl,
                 data, prompts, batchIdx, partials, ranHeuristic, vp, vlabel>>

\* res.json({ results }) with this many results
SearchResponse(n) == [NoResponse EXCEPT !.status = 200, !.results = n]

\* GET /api/search arrives: the handler runs up to its await
SearchRequest(t) ==
  /\ pc = "idle"
  /\ endpoint' = "search"
  /\ req' = SearchQuery(t)
  /\ IF trim(OrElse(t, <<>>)) = <<>>
       THEN /\ res' = SearchResponse(0)
            /\ sent' = 1
            /\ pc' = "done"
       ELSE /\ res' = NoResponse
            /\ sent' = 0
            /\ pc' = "search"
  /\ UNCHANGED frontVars
  /\ UNCHANGED <<key, lang, max, cursor, all, lastPage, url, prevUrl, data, prompts,
                 batchIdx, partials, aiLog, ranHeuristic, vp, vlabel>>

\* the awaited fetchJson of /api/search returns: a throw, and the TypeError
\* of `data.items` on null, end in the catch
SearchReturn(o) ==
  /\ pc = "search"
  /\ lastPage' = (IF o = "throw" THEN "threw" ELSE IF o = "null" THEN "unsuccessful" ELSE "page")
  /\ res' = IF o \in {"throw", "null"} THEN ErrorResponse(500, "Search failed.")
            ELSE SearchResponse(IF o = "items" THEN SearchItems ELSE 0)
  /\ sent' = sent + 1
  /\ pc' = "done"
  /\ UNCHANGED frontVars
  /\ UNCHANGED <<key, endpoint, req, lang, max, cursor, all, url, prevUrl, data, prompts,
                 batchIdx, partials, aiLog, ranHeuristic, vp, vlabel>>

Next ==
  \/ \E q \in {Query(a, n, l) : a \in AppIds, n \in Nums, l \in Langs} : ReviewsRequest(q)
  \/ \E d \in UpstreamAnswers(url) : FetchReturn(d)
  \/ \E g \in AiOutcomes : BatchReturn(g)
  \/ \E g \in AiOutcomes : MergeReturn(g)
  \/ \E b \in {Body(n) : n \in Names} : ArtRequest(b)
  \/ \E o \in ImageOutcomes : ArtReturn(o)
  \/ \E t \in Terms : SearchRequest(t)
  \/ \E o \in SearchOutcomes : SearchReturn(o)

Spec == Init /\ [][Next]_vars

\* The pagination loop alone: the request and the page requests of
\* /api/reviews.  Every awaited fetchJson returns (or throws), so the
\* handler that awaits one is resumed.
LoopNext ==
  \/ \E q \in {Query(a, n, l) : a \in AppIds, n \in Nums, l \in Langs} : ReviewsRequest(q)
  \/ \E d \in UpstreamAnswers(url) : FetchReturn(d)

\* an awaited fetchJson returns; the throwing return is named first so that
\* ENABLED is decided on it
PageReturns ==
  \/ FetchReturn(Upstream("throw", 0, <<>>, ""))
  \/ \E d \in UpstreamAnswers(url) : FetchReturn(d)

LoopFairSpec == Init /\ [][LoopNext]_vars /\ WF_vars(PageReturns)

LoopSpec == Init /\ [][LoopNext]_vars

(* ---------------- verdictFromPositivity on its own ------------------- *)

\* the arguments tried: k / VerdictGrid for every k, and each threshold
\* with its two neighbours one millionth away
VerdictGrid == 200
Million == 1000000

VerdictInputs ==
  {PNum(k, VerdictGrid) : k \in 0..VerdictGrid}
  \cup {PNum(b * 10000 + e, Million) : b \in {25, 35, 45, 55, 65, 75, 85}, e \in {-1, 0, 1}}

VerdictInit ==
  /\ PageLoaded
  /\ key = Undefined
  /\ endpoint = "none"
  /\ req = Query(Undefined, Undefined, Undefined)
  /\ pc = "idle"
  /\ lang = english
  /\ max = Num(0)
  /\ cursor = StartCursor
  /\ all = <<>>
  /\ lastPage = "none"
  /\ url = NoUrl
  /\ prevUrl = NoUrl
  /\ data = NoData
  /\ prompts = <<>>
  /\ batchIdx = 0
  /\ partials = <<>>
  /\ aiLog = <<>>
  /\ ranHeuristic = FALSE
  /\ res = NoResponse
  /\ sent = 0
  /\ vp \in VerdictInputs
  /\ vlabel = ""

ApplyVerdict ==
  /\ vlabel = ""
  /\ vlabel' = verdictFromPositivity(vp)
  /\ UNCHANGED frontVars
  /\ UNCHANGED <<key, endpoint, req, pc, lang, max, cursor, all, lastPage, url,
                 prevUrl, data, prompts, batchIdx, partials, aiLog, ranHeuristic,
                 res, sent, vp>>

VerdictNext == ApplyVerdict

VerdictSpec == VerdictInit /\ [][VerdictNext]_vars

(* --------------------------- the page alone -------------------------- *)

\* the server at rest, no request arrived
FrontInit ==
  /\ PageLoaded
  /\ key = Undefined
  /\ endpoint = "none"
  /\ req = Query(Undefined, Undefined, Undefined)
  /\ pc = "idle"
  /\ lang = english
  /\ max = Num(0)
  /\ cursor = StartCursor
  /\ all = <<>>
  /\ lastPage = "none"
  /\ url = NoUrl
  /\ prevUrl = NoUrl
  /\ data = NoData
  /\ prompts = <<>>
  /\ batchIdx = 0
  /\ partials = <<>>
  /\ aiLog = <<>>
  /\ ranHeuristic = FALSE
  /\ res = NoResponse
  /\ sent = 0
  /\ vp = PNum(0, 1)
  /\ vlabel = ""

FrontNext ==
  \/ \E g \in Games : ClickGame(g)
  \/ \E l \in SelectOptions : ChangeLang(l)
  \/ \E i \in 1..MaxPending, d \in FrontResponses : ReviewsArrive(i, d)
  \/ ClickPoster

FrontSpec == FrontInit /\ [][FrontNext]_vars

(* ------------------------------ claims ------------------------------- *)

\* the /api/reviews handler has left the pagination loop without an exception
PastLoop ==
  /\ endpoint = "reviews"
  /\ pc \in {"batch", "merge", "done"}
  /\ res.status # 400
  /\ lastPage # "threw"

\* the num of the request as a number
RequestedNum == parseInt(OrElse(req.num, DefaultNum))

Smaller(a, b) == IF a < b THEN a ELSE b
Larger(a, b) == IF a < b THEN b ELSE a

\* C1 as stated: the list that is summarized has at most min(num, 1000)
\* entries, count is its length, and under a filter other than "all" every
\* entry's language tag equals the filter.
C1_Original ==
  PastLoop =>
    /\ ~RequestedNum.nan => length(all) <= Smaller(RequestedNum.v, 1000)
    /\ res.status = 200 => res.count = length(all)
    /\ lang # allLanguages => \A i \in 1..Len(all) : all[i].r.language = lang

\* C1 as amended: the list that is summarized has at most
\* max(0, min(num, 1000)) entries (none when num is no number), count is
\* its length, and under a filter other than "all" every entry's language
\* tag, lower-cased, equals the filter.
C1_ListBounded ==
  PastLoop =>
    /\ length(all) <= (IF RequestedNum.nan THEN 0
                       ELSE Larger(0, Smaller(RequestedNum.v, 1000)))
    /\ res.status = 200 => res.count = length(all)
    /\ lang # allLanguages =>
         \A i \in 1..Len(all) : toLowerCase(all[i].r.language) = lang

\* a page of 100 was cut to the 10 reviews asked for
C1_Witness ==
  /\ PastLoop
  /\ pc = "done"
  /\ req.num = Str(<<"1","0">>)
  /\ lang = english
  /\ all = <<Run(RevUp, 10)>>
  /\ res.count = 10

\* C2 as stated: the pagination loop ends after finitely many page requests,
\* whatever the upstream answers.
C2_LoopTerminates == (pc = "fetch") ~> (pc # "fetch")

\* C3 as stated: a page request that fails after reviews were accumulated
\* ends the loop, and the request is answered normally over the reviews
\* accumulated so far.
C3_PartialOnFailure ==
  (/\ endpoint = "reviews"
   /\ pc = "done"
   /\ lastPage \in {"threw", "unsuccessful"}
   /\ length(all) > 0)
  => res.status = 200 /\ res.error = ""

\* a model call of this request threw, or no batch gave a partial, or the
\* merge output gave nothing
C4_AiFailed ==
  /\ aiLog # <<>>
  /\ \/ \E i \in 1..Len(aiLog) : aiLog[i].threw
     \/ \A i \in 1..Len(aiLog) :
          aiLog[i].stage = "batch" /\ safeJson(aiLog[i].text).type = "null"
     \/ \E i \in 1..Len(aiLog) :
          aiLog[i].stage = "merge" /\ safeJson(aiLog[i].text).type = "null"

\* C4: with reviews and a key, when a model call throws, or no batch yields
\* a partial, or the merge output is unparsable, the answer is a success
\* whose summary is the heuristic summary of the fetched reviews.
C4_AiFailureFallsBack ==
  (endpoint = "reviews" /\ pc = "done" /\ C4_AiFailed) =>
    /\ res.status = 200
    /\ res.error = ""
    /\ res.count = length(all)
    /\ res.summary = heuristicSummary(all)

\* two batches gave partials and the merge output was prose
C4_Witness ==
  /\ endpoint = "reviews"
  /\ pc = "done"
  /\ Len(aiLog) = 3
  /\ Len(partials) = 2
  /\ aiLog[3] = AiCall("merge", Generated(FALSE, TextProse))
  /\ res.status = 200

\* the credential is absent or blank
C5_KeyMissing == ~key.def \/ \A i \in 1..Len(key.s) : IsSpace(key.s[i])

\* C5: without a credential no model call is issued; /api/reviews over a
\* non-empty review set answers with the heuristic summary and /api/art
\* answers with an error.
C5_NoKeyNoAiCall ==
  C5_KeyMissing =>
    /\ AiCalls = 0
    /\ (PastLoop /\ pc = "done" /\ length(all) > 0) =>
         /\ res.status = 200
         /\ res.summary = heuristicSummary(all)
    /\ (endpoint = "art" /\ pc = "done") =>
         /\ res.status = 500
         /\ res.error = "Server missing AI key."
         /\ ~res.image

\* a blank key and a non-empty review set
C5_Witness ==
  /\ key = Str(<<" ">>)
  /\ PastLoop
  /\ pc = "done"
  /\ length(all) > 0
  /\ res.status = 200

\* C6: an empty review list is answered with count 0, an empty sample and
\* the sentinel summary; neither the heuristic summarizer nor a model call
\* is run.
C6_EmptySetSentinel ==
  (PastLoop /\ length(all) = 0) =>
    /\ pc = "done"
    /\ res.status = 200
    /\ res.error = ""
    /\ res.count = 0
    /\ res.sample = <<>>
    /\ res.summary.verdict = "Unknown"
    /\ res.summary.positivity.kind = "null"
    /\ res.summary.playtimeAvgHrs.kind = "null"
    /\ res.summary.pros = <<>>
    /\ res.summary.cons = <<>>
    /\ res.summary.themes = <<>>
    /\ res.summary.topKeywords = <<>>
    /\ ~ranHeuristic
    /\ AiCalls = 0

\* every page was filtered to empty by the language filter, with a key set
C6_Witness ==
  /\ PastLoop
  /\ length(all) = 0
  /\ lastPage = "page"
  /\ lang = english
  /\ ~C5_KeyMissing
  /\ res.count = 0

\* the threshold table of the verdict: percent and label, highest first
VerdictTable ==
  << [lo |-> 85, label |-> "Overwhelmingly Positive"],
     [lo |-> 75, label |-> "Very Positive"],
     [lo |-> 65, label |-> "Mostly Positive"],
     [lo |-> 55, label |-> "Somewhat Positive"],
     [lo |-> 45, label |-> "Mixed"],
     [lo |-> 35, label |-> "Somewhat Negative"],
     [lo |-> 25, label |-> "Mostly Negative"] >>

AtLeast(p, percent) == p.n * 100 >= percent * p.d

\* C7: verdictFromPositivity gives, for every p of [0,1], the label of the
\* highest threshold that p reaches, the threshold itself included, and
\* "Very Negative" below the lowest threshold.
C7_VerdictMatchesTable ==
  vlabel # "" =>
    /\ \A i \in 1..Len(VerdictTable) :
         (/\ AtLeast(vp, VerdictTable[i].lo)
          /\ \A j \in 1..(i - 1) : ~AtLeast(vp, VerdictTable[j].lo))
         => vlabel = VerdictTable[i].label
    /\ ~AtLeast(vp, 25) => vlabel = "Very Negative"

\* p = 0.85 itself is Overwhelmingly Positive
C7_Witness ==
  /\ vp = PNum(850000, Million)
  /\ vlabel = "Overwhelmingly Positive"

\* the number of recommended reviews of a list
C8_Recommended(l) == sumSeq([i \in 1..Len(l) |-> IF l[i].r.voted_up THEN l[i].n ELSE 0])

\* no key, and 10 English reviews fetched of which 7 are recommended
C8_Scenario ==
  /\ PastLoop
  /\ pc = "done"
  /\ C5_KeyMissing
  /\ length(all) = 10
  /\ C8_Recommended(all) = 7
  /\ \A i \in 1..Len(all) : all[i].r.language = english

\* C8 as stated: the scenario yields positivity 0.7 and the verdict
\* "Somewhat Positive".
C8_Original ==
  C8_Scenario =>
    /\ res.summary.positivity.kind = "number"
    /\ res.summary.positivity.n * 10 = 7 * res.summary.positivity.d
    /\ res.summary.verdict = "Somewhat Positive"

\* C8 as amended: the scenario yields positivity 0.7 and the verdict
\* "Mostly Positive".
C8_ScenarioMostlyPositive ==
  C8_Scenario =>
    /\ res.status = 200
    /\ res.summary.positivity.kind = "number"
    /\ res.summary.positivity.n * 10 = 7 * res.summary.positivity.d
    /\ res.summary.verdict = "Mostly Positive"

C8_Witness == C8_Scenario /\ res.count = 10 /\ AiCalls = 0

\* C9 as stated: the positivity of every success response of /api/reviews
\* is null, and then no reviews exist, or a number of [0,1].
C9_PositivityInRange ==
  (endpoint = "reviews" /\ pc = "done" /\ res.status = 200) =>
    \/ res.summary.positivity.kind = "null" /\ res.count = 0
    \/ /\ res.summary.positivity.kind = "number"
       /\ 0 <= res.summary.positivity.n
       /\ res.summary.positivity.n <= res.summary.positivity.d

C10_Missing(x) == ~x.def \/ x.s = <<>>

C10_NoCall == AiCalls = 0 /\ ~UpstreamCalled

\* C10 as stated: a request without its required parameter is answered
\* with status 400, and no upstream or model call is made for it.
C10_Original ==
  /\ (endpoint = "reviews" /\ pc # "idle" /\ C10_Missing(req.appId)) =>
       pc = "done" /\ res.status = 400 /\ C10_NoCall
  /\ (endpoint = "art" /\ pc # "idle" /\ C10_Missing(req.name)) =>
       pc = "done" /\ res.status = 400 /\ C10_NoCall

\* C10 as amended: no upstream or model call is made for a request without
\* its required parameter; /api/reviews answers it with status 400, and so
\* does /api/art when the credential is set, while without a credential
\* /api/art answers with status 500.
C10_MissingParameter ==
  /\ (endpoint = "reviews" /\ pc # "idle" /\ C10_Missing(req.appId)) =>
       pc = "done" /\ res.status = 400 /\ C10_NoCall
  /\ (endpoint = "art" /\ pc # "idle" /\ C10_Missing(req.name)) =>
       /\ pc = "done"
       /\ res.status = (IF C5_KeyMissing THEN 500 ELSE 400)
       /\ C10_NoCall

\* /api/art without a name, the credential set
C10_Witness ==
  /\ endpoint = "art"
  /\ pc = "done"
  /\ C10_Missing(req.name)
  /\ ~C5_KeyMissing
  /\ res.status = 400
  /\ res.error = "Missing game name."

\* the chunk that the loop body made of the page held in data
C11_Chunk ==
  IF lang = allLanguages THEN data.reviews ELSE filterLanguage(data.reviews, lang)

\* (a) the accumulated count has reached maxCount
C11_ReachedMax == ~lessThan(length(all), max)

\* (b) the upstream reported no more data
C11_Unsuccessful == data.outcome = "null" \/ data.success # 1

\* (b) read widely: also a failed request, and a page shorter than the
\* page size asked for
C11_NoMoreData ==
  \/ C11_Unsuccessful
  \/ data.outcome = "throw"
  \/ length(data.reviews) < PageSize

\* (c) the response repeated the cursor of its request, or carried none
C11_SameCursor == data.cursor \in {"", prevUrl}

\* C11 as stated: the loop stops only when the accumulated count has
\* reached maxCount, or the upstream reported no more data, or the cursor
\* was repeated; and while it goes on requesting none of the three holds.
C11_StopsOnlyWhenDone ==
  /\ (endpoint = "reviews" /\ pc \notin {"idle", "fetch"} /\ data # NoData) =>
       C11_ReachedMax \/ C11_NoMoreData \/ C11_SameCursor
  /\ (endpoint = "reviews" /\ pc \notin {"idle", "fetch"} /\ res.status # 400
         /\ lastPage = "none") => C11_ReachedMax
  /\ (pc = "fetch" /\ data # NoData) =>
       ~C11_ReachedMax /\ ~C11_Unsuccessful /\ ~C11_SameCursor

\* C12: the first page request carries the start cursor, every later one
\* the cursor of the response before it; and a page whose chunk is empty
\* and whose response carried a new cursor is followed by a request with
\* that cursor.
C12_CursorChain ==
  /\ (pc = "fetch" /\ data = NoData) => url = StartCursor
  /\ (pc = "fetch" /\ data # NoData) => url = data.cursor
  /\ (/\ endpoint = "reviews"
      /\ data.outcome = "data"
      /\ data.success = 1
      /\ length(C11_Chunk) = 0
      /\ data.cursor \notin {"", prevUrl})
     => pc = "fetch" /\ url = data.cursor

\* the second page, all foreign, was filtered to nothing under "english"
\* and the third request carries its cursor
C12_Witness ==
  /\ pc = "fetch"
  /\ lang = english
  /\ data = Upstream("data", 1, PageForeign, "B")
  /\ prevUrl = "A"
  /\ url = "B"

\* the rendered lines of the first 80 reviews, and their slices of 50
C13_Lines == reviewTexts(all)
C13_Slice(i) == take(drop(C13_Lines, 50 * (i - 1)), 50)
C13_BatchCount == (length(C13_Lines) + 49) \div 50

\* the i-th model call returned a parsable object
C13_Parsable(i) == ~aiLog[i].threw /\ safeJson(aiLog[i].text).type = "object"

\* the parsable outputs among the first n model calls, in order
RECURSIVE C13_Outputs(_)
C13_Outputs(n) ==
  IF n = 0 THEN <<>>
  ELSE IF C13_Parsable(n) THEN Append(C13_Outputs(n - 1), safeJson(aiLog[n].text))
  ELSE C13_Outputs(n - 1)

C13_Threw == \E i \in 1..Len(aiLog) : aiLog[i].threw

\* C13: the model calls of one /api/reviews request are made one after the
\* other, each after the one before it has returned; the i-th batch call
\* is for the i-th slice of at most 50 lines of the first 80 rendered
\* reviews, so there are at most 2; a batch whose output is unparsable is
\* followed by the next batch; the merge call is made at most once, after
\* the last batch call has returned, and only over at least one parsable
\* partial.  (A call that throws ends the synthesis, see C4.)
C13_AiSequential ==
  endpoint = "reviews" =>
    /\ Len(prompts) - Len(aiLog) = (IF pc \in {"batch", "merge"} THEN 1 ELSE 0)
    /\ Len(prompts) <= C13_BatchCount + 1
    /\ C13_BatchCount <= 2
    /\ \A i \in 1..Len(aiLog) : aiLog[i].stage = prompts[i].stage
    /\ \A i \in 1..Len(prompts) :
         /\ prompts[i].stage = "batch" =>
              /\ i <= C13_BatchCount
              /\ prompts[i].batchIndex = i
              /\ prompts[i].totalBatches = C13_BatchCount
              /\ prompts[i].reviews = C13_Slice(i)
              /\ length(prompts[i].reviews) \in 1..50
         /\ prompts[i].stage = "merge" =>
              /\ i = C13_BatchCount + 1
              /\ i = Len(prompts)
              /\ ~(\E j \in 1..(i - 1) : aiLog[j].threw)
              /\ prompts[i].partials = C13_Outputs(i - 1)
              /\ prompts[i].partials # <<>>
         /\ prompts[i].stage \in {"batch", "merge"}
    /\ \A i \in 1..Len(aiLog) :
         (i < C13_BatchCount /\ ~aiLog[i].threw) =>
           Len(prompts) > i /\ prompts[i + 1].stage = "batch"
    /\ (pc = "done" /\ prompts # <<>> /\ ~C13_Threw) =>
         /\ Len(prompts) >= C13_BatchCount
         /\ (Len(prompts) = C13_BatchCount + 1) <=> (C13_Outputs(C13_BatchCount) # <<>>)

\* the first batch gave prose and was skipped, the second of 30 lines gave
\* an object, and the merge call was made over that one partial
C13_Witness ==
  /\ endpoint = "reviews"
  /\ pc = "done"
  /\ Len(prompts) = 3
  /\ aiLog[1] = AiCall("batch", Generated(FALSE, TextProse))
  /\ aiLog[2] = AiCall("batch", Generated(FALSE, TextPlain))
  /\ length(prompts[1].reviews) = 50
  /\ length(prompts[2].reviews) = 30
  /\ prompts[3].stage = "merge"
  /\ Len(prompts[3].partials) = 1

\* an upstream or model call of this request threw
C14_Threw ==
  \/ lastPage = "threw"
  \/ \E i \in 1..Len(aiLog) : aiLog[i].threw

\* C14: a handler of /api/search, /api/reviews or /api/art that has
\* returned has sent exactly one response, no handler sends a second one,
\* and a handler in which an upstream or model call threw has returned
\* with a response.
C14_OneResponse ==
  /\ sent <= 1
  /\ pc \in {"idle", "fetch", "batch", "merge", "art", "search"} => sent = 0
  /\ pc = "done" =>
       /\ endpoint \in {"search", "reviews", "art"}
       /\ sent = 1
       /\ res.status \in {200, 400, 500}
  /\ C14_Threw => pc = "done" /\ sent = 1 /\ res.status \in {200, 500}
  /\ pc \in {"idle", "fetch", "batch", "merge", "art", "search", "done"}

\* the second batch call of /api/reviews threw and the request was answered
C14_Witness ==
  /\ endpoint = "reviews"
  /\ pc = "done"
  /\ Len(aiLog) = 2
  /\ aiLog[2].threw
  /\ sent = 1
  /\ res.status = 200

\* C15: the pros list and the cons list shown have at most 6 entries each,
\* whatever summary arrived, and they are the first entries of the lists
\* of a summary that arrived.
C15_ShownCapped ==
  /\ Len(prosEl) <= 6
  /\ Len(consEl) <= 6
  /\ (Truthy(currentSummary) /\ currentSummary.pros.kind = "array") =>
       prosEl = firstN(currentSummary.pros.items, 6)

\* a merged summary with 8 pros and 7 cons arrived and 6 of each are shown
C15_Witness ==
  /\ currentSummary = AiSummary(Arr(AiItems(LongPros)), Arr(AiItems(LongCons)))
  /\ Len(prosEl) = 6
  /\ Len(consEl) = 6
  /\ prosEl[6] = Entry(<<"p", "6">>)

\* C16 as stated: whenever currentSummary is set it is the summary
\* returned for currentGame, and a poster request pairs a game with a
\* summary fetched for that game.
C16_SummaryOfCurrentGame ==
  /\ Truthy(currentSummary) => summaryFor = currentGame
  /\ poster # NoPoster => poster.for = poster.game

====
